---- MODULE Spec2Model ----
(***************************************************************************)
(* Model of aqi_client.py: one process run is                              *)
(*   init_db -> get_aqi -> store_aqi (classify, get_last_record, INSERT,   *)
(*   notify or log) -> status print,                                       *)
(* with the `except (requests.RequestException, ValueError)` handler of    *)
(* the entry point.  The SQLite file aqi_history.db outlives the process,  *)
(* so the model runs the program several times over the same store.        *)
(***************************************************************************)
EXTENDS Integers, Sequences, FiniteSets

(* ---------------------------------------------------------------- bounds *)

\* Number of process runs (poll cycles) over the same database file.
MaxCycles == 3
\* Reading timestamps are 1..MaxTime, in the order SQLite compares the
\* stored ISO texts.
MaxTime == 2
\* The classifier alone is exercised on every integer of MinAqi..MaxAqi.
MaxAqi == 510
MinAqi == 0 - 3

\* Index values the API reports in the poll-cycle model: two values of the
\* same category, a category boundary, another category, an out-of-domain one.
AqiValues == {42, 50, 51, 120, 999}
Pollutants == {"pm25"}
Station == "Huinan"

(* ------------------------------------------------------- AQILevel (enum) *)

\* Members in definition order; iteration `for level in cls` follows it.
AQILevel ==
  << [name |-> "GOOD",                lo |-> 0,   hi |-> 50,  label |-> "Good"],
     [name |-> "MODERATE",            lo |-> 51,  hi |-> 100, label |-> "Moderate"],
     [name |-> "UNHEALTHY_SENSITIVE", lo |-> 101, hi |-> 150,
      label |-> "Unhealthy for Sensitive Groups"],
     [name |-> "UNHEALTHY",           lo |-> 151, hi |-> 200, label |-> "Unhealthy"],
     [name |-> "VERY_UNHEALTHY",      lo |-> 201, hi |-> 300, label |-> "Very Unhealthy"],
     [name |-> "HAZARDOUS",           lo |-> 301, hi |-> 500, label |-> "Hazardous"] >>

HAZARDOUS == AQILevel[6]

\* level.value[0] <= aqi <= level.value[1]
InRange(level, aqi) == level.lo <= aqi /\ aqi <= level.hi

\* A classifier whose upper bounds are exclusive (`<` for the second `<=`).
get_level_exclusive_hi(aqi) ==
  LET hits == {i \in 1..Len(AQILevel) : AQILevel[i].lo <= aqi /\ aqi < AQILevel[i].hi}
  IN  IF hits = {} THEN HAZARDOUS
      ELSE AQILevel[CHOOSE i \in hits : \A j \in hits : i <= j]

\* First member in definition order whose range holds aqi, else HAZARDOUS.
get_level(aqi) ==
  LET hits == {i \in 1..Len(AQILevel) : InRange(AQILevel[i], aqi)}
  IN  IF hits = {} THEN HAZARDOUS
      ELSE AQILevel[CHOOSE i \in hits : \A j \in hits : i <= j]

(* ----------------------------------------------------------------- state *)

VARIABLES
  pc,          \* position of the process: "idle", "init_db", "get_aqi",
               \* "store_aqi", "get_last_record", "insert", "check",
               \* "print_status", and the ends "done", "caught", "crashed"
  cycles,      \* process runs started so far
  token,       \* TOKEN = os.getenv("AQICN_TOKEN"): "None" or "token"
  netCalls,    \* requests.get calls made by this run
  response,    \* <<>> or <<body>>: the JSON body the API answered with
  result,      \* <<>> or <<AQIResponse>>
  level,       \* <<>> or <<AQILevel member>>: store_aqi's local
  last_record, \* <<>> (None) or <<aqi, level>>: store_aqi's local
  lastRow,     \* id of the row get_last_record returned, 0 for None
  tableExists, \* aqi_records exists in aqi_history.db
  store,       \* rows of aqi_records in id order
  store0,      \* the rows when this run started
  openConns,   \* connections of this process not yet closed
  error,       \* "none" or the class of the exception raised
  notified,    \* <<>> or <<old_level, new_level>>: notify_level_change was called
  emitted      \* the notification message reached the console

vars == << pc, cycles, token, netCalls, response, result, level, last_record,
           lastRow, tableExists, store, store0, openConns, error, notified,
           emitted >>

Times == 1..MaxTime

\* What main leaves alone between the start of a run and its end.
EndStates == {"done", "caught", "crashed"}

(* ------------------------------------------------------- the API's answer *)

\* One defect at most per "ok" body; "detail" is the string an error carries.
Defects == {"none", "no_aqi", "no_time", "bad_iso", "no_city", "no_dominentpol"}

OkBodies ==
  {[status |-> "ok", kind |-> d, aqi |-> a, time |-> t, dominentpol |-> p] :
     d \in {"none"}, a \in AqiValues, t \in Times, p \in Pollutants}
  \cup
  {[status |-> "ok", kind |-> d, aqi |-> 42, time |-> 1, dominentpol |-> "pm25"] :
     d \in Defects \ {"none"}}

ErrorBodies ==
  {[status |-> s, kind |-> "detail", aqi |-> 42, time |-> 1, dominentpol |-> "pm25"] :
     s \in {"error", "absent"}}

\* The server never answers "ok" to a request that carries token=None.
Bodies(tok) == IF tok = "None" THEN ErrorBodies ELSE OkBodies \cup ErrorBodies

\* AQIResponse.from_response: the exception it raises, "none" if it returns.
\* Fields are read in the order aqi, time.iso, city.name, dominentpol.
from_response_raises(data) ==
  CASE data.kind = "detail"         -> "TypeError"
    [] data.kind = "no_aqi"         -> "KeyError"
    [] data.kind = "no_time"        -> "KeyError"
    [] data.kind = "bad_iso"        -> "ValueError"
    [] data.kind = "no_city"        -> "KeyError"
    [] data.kind = "no_dominentpol" -> "KeyError"
    [] OTHER                        -> "none"

from_response(data) ==
  [aqi |-> data.aqi, time |-> data.time, station |-> Station,
   dominentpol |-> data.dominentpol]

\* get_aqi without the status test.
get_aqi_raises_unchecked(data) ==
  IF data.status = "absent" THEN "KeyError" ELSE from_response_raises(data)

\* get_aqi after response.json(): data['status'] is read first, a status
\* other than 'ok' raises ValueError, else from_response decides.
get_aqi_raises(data) ==
  IF data.status = "absent" THEN "KeyError"
  ELSE IF data.status # "ok" THEN "ValueError"
  ELSE from_response_raises(data)

\* except (requests.RequestException, ValueError): JSONDecodeError is a ValueError.
Caught(exc) == exc \in {"RequestException", "ValueError", "JSONDecodeError"}

AfterRaise(exc) == IF Caught(exc) THEN "caught" ELSE "crashed"

(* ---------------------------------------------------------------- SQLite *)

\* A connection either cannot be opened, or a statement on it fails, or all
\* statements and the commit succeed.
DbOutcomes == {"ok", "connect_fails", "statement_fails"}

\* Rows that ORDER BY timestamp DESC LIMIT 1 may return: any row holding the
\* greatest timestamp (SQL leaves the order among equal keys open).
MostRecentRows(rows) ==
  {i \in 1..Len(rows) : \A j \in 1..Len(rows) : rows[j].timestamp <= rows[i].timestamp}

\* SELECT aqi, level ... fetchone(): the tuple of row i, None for no row.
Fetched(rows, i) == IF i = 0 THEN << >> ELSE << rows[i].aqi, rows[i].level >>

\* Values get_last_record may return on the given table.
get_last_record(rows) ==
  IF rows = << >> THEN { << >> } ELSE {Fetched(rows, i) : i \in MostRecentRows(rows)}

\* The row store_aqi inserts.
NewRow(data, lvl) ==
  [timestamp |-> data.time, aqi |-> data.aqi, level |-> lvl.name,
   station |-> data.station, dominentpol |-> data.dominentpol]

(* --------------------------------------------------------------- actions *)

Init ==
  /\ pc = "idle"
  /\ cycles = 0
  /\ token = "None"
  /\ netCalls = 0
  /\ response = << >>
  /\ result = << >>
  /\ level = << >>
  /\ last_record = << >>
  /\ lastRow = 0
  /\ tableExists = FALSE
  /\ store = << >>
  /\ store0 = << >>
  /\ openConns = 0
  /\ error = "none"
  /\ notified = << >>
  /\ emitted = FALSE

\* A process starts (the first one, or the next scheduled run after the
\* previous one ended): load_dotenv and os.getenv read the token.  The
\* operating system has closed whatever the previous process left open.
main ==
  /\ pc \in {"idle"} \cup EndStates
  /\ cycles < MaxCycles
  /\ cycles' = cycles + 1
  /\ \E tok \in {"None", "token"} : token' = tok
  /\ pc' = "init_db"
  /\ netCalls' = 0
  /\ response' = << >>
  /\ result' = << >>
  /\ level' = << >>
  /\ last_record' = << >>
  /\ lastRow' = 0
  /\ store0' = store
  /\ openConns' = 0
  /\ error' = "none"
  /\ notified' = << >>
  /\ emitted' = FALSE
  /\ UNCHANGED << tableExists, store >>

\* init_db that recreates the table from scratch.
init_db_recreate ==
  /\ pc = "init_db"
  /\ \E out \in DbOutcomes :
       CASE out = "ok" ->
              /\ tableExists' = TRUE
              /\ store' = << >>
              /\ pc' = "get_aqi"
              /\ UNCHANGED << openConns, error >>
         [] out = "connect_fails" ->
              /\ pc' = "crashed"
              /\ error' = "sqlite3.Error"
              /\ UNCHANGED << tableExists, store, openConns >>
         [] out = "statement_fails" ->
              /\ pc' = "crashed"
              /\ error' = "sqlite3.Error"
              /\ openConns' = openConns + 1
              /\ UNCHANGED << tableExists, store >>
  /\ UNCHANGED << cycles, token, netCalls, response, result, level,
                  last_record, lastRow, store0, notified, emitted >>

\* init_db: connect, CREATE TABLE IF NOT EXISTS, commit, close.  It runs
\* outside the try block, so an sqlite3 error ends the process; a failing
\* statement skips conn.close().
init_db ==
  /\ pc = "init_db"
  /\ \E out \in DbOutcomes :
       CASE out = "ok" ->
              /\ tableExists' = TRUE
              /\ pc' = "get_aqi"
              /\ UNCHANGED << store, openConns, error >>
         [] out = "connect_fails" ->
              /\ pc' = "crashed"
              /\ error' = "sqlite3.Error"
              /\ UNCHANGED << tableExists, store, openConns >>
         [] out = "statement_fails" ->
              /\ pc' = "crashed"
              /\ error' = "sqlite3.Error"
              /\ openConns' = openConns + 1
              /\ UNCHANGED << tableExists, store >>
  /\ UNCHANGED << cycles, token, netCalls, response, result, level,
                  last_record, lastRow, store0, notified, emitted >>

\* get_aqi(TOKEN): the URL is built from the token whatever it is and
\* requests.get is called; then the transport fails, or the body is no JSON,
\* or the body is parsed and checked.
get_aqi ==
  /\ pc = "get_aqi"
  /\ netCalls' = netCalls + 1
  /\ \E net \in {"RequestException", "JSONDecodeError", "json"} :
       IF net # "json"
       THEN /\ error' = net
            /\ pc' = AfterRaise(net)
            /\ UNCHANGED << response, result >>
       ELSE \E data \in Bodies(token) :
              /\ response' = << data >>
              /\ IF get_aqi_raises(data) = "none"
                 THEN /\ result' = << from_response(data) >>
                      /\ pc' = "store_aqi"
                      /\ UNCHANGED error
                 ELSE /\ error' = get_aqi_raises(data)
                      /\ pc' = AfterRaise(get_aqi_raises(data))
                      /\ UNCHANGED result
  /\ UNCHANGED << cycles, token, level, last_record, lastRow, tableExists,
                  store, store0, openConns, notified, emitted >>

\* store_aqi, line 98: level = AQILevel.get_level(data.aqi)
store_aqi_classify ==
  /\ pc = "store_aqi"
  /\ level' = << get_level(result[1].aqi) >>
  /\ pc' = "get_last_record"
  /\ UNCHANGED << cycles, token, netCalls, response, result, last_record,
                  lastRow, tableExists, store, store0, openConns, error,
                  notified, emitted >>

\* store_aqi, line 101: last_record = get_last_record()
store_aqi_get_last ==
  /\ pc = "get_last_record"
  /\ \E out \in DbOutcomes :
       CASE out = "ok" ->
              /\ \E i \in (IF store = << >> THEN {0} ELSE MostRecentRows(store)) :
                   /\ lastRow' = i
                   /\ last_record' = Fetched(store, i)
              /\ pc' = "insert"
              /\ UNCHANGED << openConns, error >>
         [] out = "connect_fails" ->
              /\ pc' = "crashed"
              /\ error' = "sqlite3.Error"
              /\ UNCHANGED << last_record, lastRow, openConns >>
         [] out = "statement_fails" ->
              /\ pc' = "crashed"
              /\ error' = "sqlite3.Error"
              /\ openConns' = openConns + 1
              /\ UNCHANGED << last_record, lastRow >>
  /\ UNCHANGED << cycles, token, netCalls, response, result, level,
                  tableExists, store, store0, notified, emitted >>

\* An insert that logs a failing statement and carries on instead of raising.
store_aqi_insert_swallowing ==
  /\ pc = "insert"
  /\ \E out \in DbOutcomes :
       CASE out = "ok" ->
              /\ store' = Append(store, NewRow(result[1], level[1]))
              /\ pc' = "check"
              /\ UNCHANGED << openConns, error >>
         [] out = "connect_fails" ->
              /\ pc' = "crashed"
              /\ error' = "sqlite3.Error"
              /\ UNCHANGED << store, openConns >>
         [] out = "statement_fails" ->
              /\ pc' = "check"
              /\ openConns' = openConns + 1
              /\ UNCHANGED << store, error >>
  /\ UNCHANGED << cycles, token, netCalls, response, result, level,
                  last_record, lastRow, tableExists, store0, notified, emitted >>

\* store_aqi, lines 104-111: connect, INSERT, commit, close.
store_aqi_insert ==
  /\ pc = "insert"
  /\ \E out \in DbOutcomes :
       CASE out = "ok" ->
              /\ store' = Append(store, NewRow(result[1], level[1]))
              /\ pc' = "check"
              /\ UNCHANGED << openConns, error >>
         [] out = "connect_fails" ->
              /\ pc' = "crashed"
              /\ error' = "sqlite3.Error"
              /\ UNCHANGED << store, openConns >>
         [] out = "statement_fails" ->
              /\ pc' = "crashed"
              /\ error' = "sqlite3.Error"
              /\ openConns' = openConns + 1
              /\ UNCHANGED store
  /\ UNCHANGED << cycles, token, netCalls, response, result, level,
                  last_record, lastRow, tableExists, store0, notified, emitted >>

\* A change test on the index values instead of the level names.
LevelChangedByValue(last, data, lvl) == last # << >> /\ last[1] # data.aqi

\* Line 113: last_record and last_record[1] != level.name
\* (the tuple is (aqi, level): index 1 of Python is position 2 here).
LevelChanged(last, data, lvl) == last # << >> /\ last[2] # lvl.name

\* store_aqi, lines 113-116: notify_level_change logs and prints the message
\* (print may raise OSError, which nothing catches); otherwise one log line.
store_aqi_check ==
  /\ pc = "check"
  /\ IF LevelChanged(last_record, result[1], level[1])
     THEN /\ notified' = << last_record[2], level[1].name >>
          /\ \E printed \in BOOLEAN :
               IF printed
               THEN /\ emitted' = TRUE
                    /\ pc' = "print_status"
                    /\ UNCHANGED error
               ELSE /\ error' = "OSError"
                    /\ pc' = AfterRaise("OSError")
                    /\ UNCHANGED emitted
     ELSE /\ pc' = "print_status"
          /\ UNCHANGED << notified, emitted, error >>
  /\ UNCHANGED << cycles, token, netCalls, response, result, level,
                  last_record, lastRow, tableExists, store, store0, openConns >>

\* Lines 146-156: the status lines of a successful cycle.
print_status ==
  /\ pc = "print_status"
  /\ \E printed \in BOOLEAN :
       IF printed
       THEN /\ pc' = "done"
            /\ UNCHANGED error
       ELSE /\ error' = "OSError"
            /\ pc' = AfterRaise("OSError")
  /\ UNCHANGED << cycles, token, netCalls, response, result, level,
                  last_record, lastRow, tableExists, store, store0, openConns,
                  notified, emitted >>

Next ==
  \/ main
  \/ init_db
  \/ get_aqi
  \/ store_aqi_classify
  \/ store_aqi_get_last
  \/ store_aqi_insert
  \/ store_aqi_check
  \/ print_status

Spec == Init /\ [][Next]_vars

(* ------------------------------------------- the classifier on its own *)

\* store_aqi entered with a reading of any index value of MinAqi..MaxAqi.
InitClassify ==
  /\ pc = "store_aqi"
  /\ cycles = 1
  /\ token = "token"
  /\ netCalls = 1
  /\ \E a \in MinAqi..MaxAqi :
       /\ response = << [status |-> "ok", kind |-> "none", aqi |-> a, time |-> 1,
                         dominentpol |-> "pm25"] >>
       /\ result = << from_response(response[1]) >>
  /\ level = << >>
  /\ last_record = << >>
  /\ lastRow = 0
  /\ tableExists = TRUE
  /\ store = << >>
  /\ store0 = << >>
  /\ openConns = 0
  /\ error = "none"
  /\ notified = << >>
  /\ emitted = FALSE

NextClassify == store_aqi_classify

SpecClassify == InitClassify /\ [][NextClassify]_vars

(* ---------------------------------------------------------------- claims *)

\* The reading of this run, its classification and the row it produces.
Reading == result[1]
Inserted == Len(store) = Len(store0) + 1
ThisRow == NewRow(Reading, get_level(Reading.aqi))

\* C1: get_level maps [0,50] to Good, [51,100] to Moderate, [101,150] to
\* Unhealthy for Sensitive Groups, [151,200] to Unhealthy, [201,300] to Very
\* Unhealthy, [301,500] to Hazardous and every value above 500 to Hazardous;
\* exactly one range of the table holds any integer of [0,500].
C1_Classification ==
  pc = "get_last_record" =>
    LET v == Reading.aqi
        l == level[1].label
    IN  /\ (0 <= v /\ v <= 50) => l = "Good"
        /\ (51 <= v /\ v <= 100) => l = "Moderate"
        /\ (101 <= v /\ v <= 150) => l = "Unhealthy for Sensitive Groups"
        /\ (151 <= v /\ v <= 200) => l = "Unhealthy"
        /\ (201 <= v /\ v <= 300) => l = "Very Unhealthy"
        /\ (301 <= v /\ v <= 500) => l = "Hazardous"
        /\ v > 500 => l = "Hazardous"
        /\ (0 <= v /\ v <= 500) =>
             Cardinality({i \in 1..Len(AQILevel) : InRange(AQILevel[i], v)}) = 1

\* The fallback has classified a value above every declared range.
C1_Witness ==
  /\ pc = "get_last_record"
  /\ Reading.aqi = 501
  /\ level[1].label = "Hazardous"
  /\ {i \in 1..Len(AQILevel) : InRange(AQILevel[i], Reading.aqi)} = {}

\* What the change detector is meant to decide on: a record was returned
\* before the insert and its category is not the new reading's.
PreviousDiffers ==
  lastRow # 0 /\ store[lastRow].level # get_level(Reading.aqi).name

C3_ConsecutivePolls ==
  /\ (pc = "insert" /\ store # << >>) => lastRow = Len(store)
  /\ (pc = "done" /\ Len(store) >= 2) =>
       (notified # << >> <=> store[Len(store) - 1].level # store[Len(store)].level)

\* C4: right after store_aqi has committed its row, get_last_record can
\* only return that row's index value and category.
C4_ReadYourWrite ==
  (pc = "check" /\ Inserted) => get_last_record(store) = {<< ThisRow.aqi, ThisRow.level >>}

\* C5: the stored rows only ever grow at the end, by one row at a time, each
\* row's category is the classification of its index value, and a cycle that
\* completes has added exactly one row.
C5_AppendOnly ==
  [][ /\ Len(store') \in {Len(store), Len(store) + 1}
      /\ SubSeq(store', 1, Len(store)) = store
      /\ \A i \in 1..Len(store') : store'[i].level = get_level(store'[i].aqi).name
      /\ pc' = "done" => (Len(store') = Len(store0') + 1 /\ store'[Len(store')] = ThisRow')
    ]_vars

\* A later run has gone through init_db over a non-empty table and completed,
\* with the earlier rows still in place.
C5_Witness ==
  /\ pc = "done"
  /\ cycles >= 2
  /\ Len(store0) >= 1
  /\ tableExists
  /\ SubSeq(store, 1, Len(store0)) = store0
  /\ Len(store) = Len(store0) + 1

\* C6: once the API has answered with a status other than "ok", the run has
\* raised ValueError, the handler has caught it, and the run wrote no row
\* and sent no notification.
C6_ErrorStatus ==
  (response # << >> /\ response[1].status = "error") =>
    /\ pc = "caught"
    /\ error = "ValueError"
    /\ store = store0
    /\ notified = << >>
    /\ ~emitted

\* The API answered "error" to a run over a table that already holds rows.
C6_Witness ==
  /\ response # << >>
  /\ response[1].status = "error"
  /\ token = "token"
  /\ pc = "caught"
  /\ store0 # << >>

\* C7: a run whose token is absent makes no request to the API.
C7_NoCallWithoutToken ==
  (cycles > 0 /\ token = "None") => netCalls = 0

\* C8: whenever notify_level_change has been called, and so whenever its
\* message was emitted or failed to be, the row of this reading is the last
\* committed row of the store.
C8_NotifyAfterCommit ==
  (notified # << >> \/ emitted) =>
    /\ Inserted
    /\ store[Len(store)] = ThisRow
    /\ SubSeq(store, 1, Len(store0)) = store0

\* Printing the notification failed and the row is in the store.
C8_Witness ==
  /\ pc = "crashed"
  /\ error = "OSError"
  /\ notified # << >>
  /\ ~emitted
  /\ store # << >>
  /\ store[Len(store)] = ThisRow

\* C9: an answer with a non-success status or a malformed body never ends
\* the process with an uncaught exception: the handler catches the error.
C9_ApiFailureCaught ==
  (response # << >> /\ (response[1].status # "ok" \/ response[1].kind # "none")
     /\ result = << >>)
    => pc = "caught"

\* C10: no database operation has returned or raised with its connection open.
C10_ConnectionsClosed == openConns = 0

====
